---- MODULE Spec2Model ----
(***************************************************************************)
(* A model of colab_assist (src/src/colab_assist/colab_assist.py).         *)
(*                                                                         *)
(* Python strings are sequences of one-character strings.  Every call of   *)
(* a function of the module is one action; the calls it makes to the world *)
(* outside the module (subprocess.run, getpass, the Colab Secret store,    *)
(* _colab, IPython, importlib, shutil) are appended, in order, to `trace`. *)
(***************************************************************************)
EXTENDS Integers, Sequences, FiniteSets, TLC

VARIABLES
    imported,        \* the module body of colab_assist has run in this interpreter
    sysPath,         \* entries appended to sys.path
    sysPathExt,      \* _colab._sys_path_extensions
    loadStateCalls,  \* number of calls of _colab._load_state() so far
    updateUvCalls,   \* number of calls of _colab._update_uv() so far
    pc,              \* "idle": no call observed; "done": `call`, `trace`, `ret` describe the last call
    call,            \* the last call: function name and arguments
    trace,           \* the outside calls the last call made, in order
    ret              \* how the last call ended: returned value or raised exception

vars == <<imported, sysPath, sysPathExt, loadStateCalls, updateUvCalls, pc, call, trace, ret>>

-----------------------------------------------------------------------------
(* Bounds of the model.                                                    *)

MaxLen == 4        \* longest specifier drawn from all strings over Sigma
MaxPkgs == 2       \* most packages given to one install/update/reinstall call
MaxOptLen == 3     \* longest option string drawn from all strings over OptSigma
MaxPath == 2       \* most entries the calls of the model append to sys.path

-----------------------------------------------------------------------------
(* Python values.                                                          *)

None == <<"None">>

Truthy(x) == x # None /\ x # <<>>

\* x or y
Or(x, y) == IF Truthy(x) THEN x ELSE y

\* the characters of a string: c in s, for a one-character c
Chars(s) == {s[i] : i \in DOMAIN s}

StartsWith(s, c) == Len(s) >= 1 /\ s[1] = c

\* an outside call made by the module: its name, its argument strings and what it
\* gave back (a string, or <<>> when the module does not look at it)
Ev(op, args, out) == [op |-> op, args |-> args, out |-> out, timeout |-> None]

Printed == Ev("print", <<>>, <<>>)

\* the number of calls of op in a trace
RECURSIVE Count(_, _)
Count(tr, op) ==
    IF tr = <<>> THEN 0 ELSE (IF Head(tr).op = op THEN 1 ELSE 0) + Count(Tail(tr), op)

Return(v) == [kind |-> "return", value |-> v]
Raise(exc) == [kind |-> "raise", value |-> exc]

-----------------------------------------------------------------------------
(* Module constants, colab_assist.py lines 37-41.                          *)

REPOS_ROOT == <<"/","c","o","n","t","e","n","t","/","r","e","p","o","s","/">>

GithubCom == <<"g","i","t","h","u","b",".","c","o","m">>
GitlabCom == <<"g","i","t","l","a","b",".","c","o","m">>
BitbucketOrg == <<"b","i","t","b","u","c","k","e","t",".","o","r","g">>

\* a mapping with two of the host tags mixed up
HOST_NAMES_Swapped ==
    (<<"g","h">> :> GithubCom) @@ (<<"g","l">> :> BitbucketOrg) @@ (<<"b","b">> :> GitlabCom)

HOST_NAMES == (<<"g","h">> :> GithubCom) @@ (<<"g","l">> :> GitlabCom) @@ (<<"b","b">> :> BitbucketOrg)

\* dict.get(key): the value, or None when the key is missing
DictGet(d, k) == IF k \in DOMAIN d THEN d[k] ELSE None

-----------------------------------------------------------------------------
(* Character classes of the pattern of _parse_package_spec, over the       *)
(* characters the model draws its strings from.                            *)

Alnum == {"a","b","g","h","l","k","t","z","1"}     \* a-zA-Z0-9
Word == Alnum \cup {"_"}                          \* \w

(* A backtracking matcher for the regular expressions the module uses.     *)
(* A pattern is a tree of                                                  *)
(*   set(cs)        one character of cs                                    *)
(*   rep(cs, min)   cs* (min = 0) or cs+ (min = 1), greedy                 *)
(*   opt(e)         e?, greedy                                             *)
(*   cat(es)        the es one after another                               *)
(*   alt(es)        the es as alternatives, tried left to right            *)
(*   grp(n, e)      capturing group n around e                             *)
(* Match gives the ways e matches s from position i, as a sequence of      *)
(* <<position after the match, groups>>, in the order a backtracking       *)
(* matcher tries them.                                                     *)

ReSet(cs) == [t |-> "set", cs |-> cs]
ReLit(c) == ReSet({c})
ReRep(cs, min) == [t |-> "rep", cs |-> cs, min |-> min]
ReOpt(e) == [t |-> "opt", e |-> e]
ReCat(es) == [t |-> "cat", es |-> es]
ReAlt(es) == [t |-> "alt", es |-> es]
ReGrp(n, e) == [t |-> "grp", n |-> n, e |-> e]

\* the length of the longest run of characters of cs in s from position i
RECURSIVE Run(_, _, _)
Run(s, i, cs) == IF i <= Len(s) /\ s[i] \in cs THEN 1 + Run(s, i + 1, cs) ELSE 0

RECURSIVE Match(_, _, _, _), MatchCat(_, _, _, _, _), MatchAlt(_, _, _, _, _), Continue(_, _, _, _, _)

Match(e, s, i, g) ==
    CASE e.t = "set" ->
            IF i <= Len(s) /\ s[i] \in e.cs THEN << <<i + 1, g>> >> ELSE <<>>
      [] e.t = "rep" ->
            LET m == Run(s, i, e.cs)
            IN  IF m < e.min THEN <<>>
                ELSE [k \in 1..(m - e.min + 1) |-> <<i + m - (k - 1), g>>]
      [] e.t = "opt" -> Match(e.e, s, i, g) \o << <<i, g>> >>
      [] e.t = "cat" -> MatchCat(e.es, 1, s, i, g)
      [] e.t = "alt" -> MatchAlt(e.es, 1, s, i, g)
      [] e.t = "grp" ->
            LET rs == Match(e.e, s, i, g)
            IN  [k \in 1..Len(rs) |->
                    <<rs[k][1], [rs[k][2] EXCEPT ![e.n] = SubSeq(s, i, rs[k][1] - 1)]>>]

MatchCat(es, idx, s, i, g) ==
    IF idx > Len(es) THEN << <<i, g>> >>
    ELSE Continue(es, idx, s, Match(es[idx], s, i, g), 1)

\* each way rs[k..] of matching es[idx], followed by the rest of es
Continue(es, idx, s, rs, k) ==
    IF k > Len(rs) THEN <<>>
    ELSE MatchCat(es, idx + 1, s, rs[k][1], rs[k][2]) \o Continue(es, idx, s, rs, k + 1)

MatchAlt(es, idx, s, i, g) ==
    IF idx > Len(es) THEN <<>>
    ELSE Match(es[idx], s, i, g) \o MatchAlt(es, idx + 1, s, i, g)

\* re.fullmatch(pattern, s).groups() with n groups, or None when s does not match
RECURSIVE FirstFull(_, _, _)
FirstFull(rs, k, n) ==
    IF k > Len(rs) THEN None
    ELSE IF rs[k][1] = n + 1 THEN rs[k][2]
    ELSE FirstFull(rs, k + 1, n)

\* re.match in place of re.fullmatch: the match need not reach the end of s
FullMatch_Prefix(pattern, ngroups, s) ==
    LET rs == Match(pattern, s, 1, [k \in 1..ngroups |-> None])
    IN  IF rs = <<>> THEN None ELSE rs[1][2]

FullMatch(pattern, ngroups, s) ==
    FirstFull(Match(pattern, s, 1, [k \in 1..ngroups |-> None]), 1, Len(s))

\* the pattern of _parse_package_spec
AuthRe ==
    ReOpt(ReCat(<<
        ReGrp(1, ReCat(<< ReOpt(ReLit("$")), ReRep({"-","%","+",".",":"} \cup Word, 0) >>)),
        ReLit("@") >>))

HostRe ==
    ReOpt(ReAlt(<<
        ReCat(<< ReLit("$"),
                 ReGrp(2, ReAlt(<< ReCat(<<ReLit("g"), ReLit("h")>>),
                                   ReCat(<<ReLit("g"), ReLit("l")>>),
                                   ReCat(<<ReLit("b"), ReLit("b")>>) >>)),
                 ReLit("/") >>),
        ReCat(<< ReGrp(3, ReCat(<< ReRep({"-"} \cup Alnum, 1), ReLit("."),
                                   ReRep({"-","."} \cup Alnum, 1) >>)),
                 ReLit("/") >>) >>))

RepoRe ==
    ReGrp(4, ReCat(<<
        ReRep({"-"} \cup Word, 1), ReLit("/"), ReRep({"-","."} \cup Word, 1),
        ReOpt(ReCat(<< ReLit("@"), ReRep({"-",".","/"} \cup Word, 1) >>)) >>))

PackageSpecRe == ReCat(<<AuthRe, HostRe, RepoRe>>)

-----------------------------------------------------------------------------
(* The world outside the module.                                           *)

\* the Colab Secrets of the notebook: name -> value
Secrets == (<<"k">> :> <<"s","1">>)

\* what the user may type at a getpass prompt (nothing, to skip)
PwInputs == {<<>>, <<"p">>}

\* _colab.userdata.get(name): the secret, or SecretNotFoundError
UserdataGet(name) ==
    IF name \in DOMAIN Secrets THEN Return(Secrets[name]) ELSE Raise(<<"SecretNotFoundError">>)

-----------------------------------------------------------------------------
(* _get_auth and _parse_package_spec.  Each gives [ret, trace]: how the    *)
(* call ends and the outside calls it makes.  pw is what the user types    *)
(* if a getpass prompt spawns.                                             *)

\* the secret is looked up under the whole auth text, its "$" included
get_auth_WholeName(auth, pw) ==
    IF auth = <<"$">> THEN
        [ret |-> Return(pw), trace |-> <<Ev("getpass", <<>>, pw)>>]
    ELSE IF StartsWith(auth, "$") THEN
        [ret |-> UserdataGet(auth), trace |-> <<Ev("userdata.get", <<auth>>, UserdataGet(auth).value)>>]
    ELSE
        [ret |-> Return(auth), trace |-> <<>>]

get_auth(auth, pw) ==
    IF auth = <<"$">> THEN
        [ret |-> Return(pw), trace |-> <<Ev("getpass", <<>>, pw)>>]
    ELSE IF StartsWith(auth, "$") THEN
        [ret |-> UserdataGet(Tail(auth)),
         trace |-> <<Ev("userdata.get", <<Tail(auth)>>, UserdataGet(Tail(auth)).value)>>]
    ELSE
        [ret |-> Return(auth), trace |-> <<>>]

GitHttps == <<"g","i","t","+","h","t","t","p","s",":","/","/">>

parse_package_spec(spec, pw) ==
    LET matched == FullMatch(PackageSpecRe, 4, spec)
    IN  IF matched = None THEN [ret |-> Return(spec), trace |-> <<>>]
        ELSE
            LET auth == matched[1]
                host_tag == matched[2]
                repo == matched[4]
                host_name == Or(Or(DictGet(HOST_NAMES, host_tag), matched[3]), GithubCom)
            IN  IF Truthy(auth) THEN
                    LET a == get_auth(auth, pw)
                    IN  IF a.ret.kind = "raise" THEN a
                        ELSE [ret |-> Return(GitHttps \o a.ret.value \o <<"@">> \o host_name
                                             \o <<"/">> \o repo),
                              trace |-> a.trace]
                ELSE
                    [ret |-> Return(GitHttps \o host_name \o <<"/">> \o repo), trace |-> <<>>]

-----------------------------------------------------------------------------
(* shlex.split(s): the POSIX-mode tokenizer of the standard library with   *)
(* whitespace_split and without comments, as install uses it on `o`.       *)
(* state is the tokenizer's state: " " between tokens, "a" in a word, a    *)
(* quote character inside quotes, "\\" after an escape character.          *)

Whitespace == {" "}
Quotes == {"'", "\""}
Escape == {"\\"}
EscapedQuotes == {"\""}

\* the token read so far is given out unless it is empty and unquoted
ShlexEmit(out, token, quoted) == IF token # <<>> \/ quoted THEN Append(out, token) ELSE out

RECURSIVE ShlexRead(_, _, _, _, _, _, _)
ShlexRead(s, i, state, escapedstate, token, quoted, out) ==
    IF i > Len(s) THEN
        IF state \in Quotes THEN Raise(<<"ValueError">>)          \* No closing quotation
        ELSE IF state \in Escape THEN Raise(<<"ValueError">>)     \* No escaped character
        ELSE Return(ShlexEmit(out, token, quoted))
    ELSE
        LET c == s[i]
        IN  CASE state = " " ->
                    IF c \in Whitespace THEN
                        ShlexRead(s, i + 1, " ", escapedstate, <<>>, FALSE, ShlexEmit(out, token, quoted))
                    ELSE IF c \in Escape THEN ShlexRead(s, i + 1, c, "a", token, quoted, out)
                    ELSE IF c \in Quotes THEN ShlexRead(s, i + 1, c, escapedstate, token, quoted, out)
                    ELSE ShlexRead(s, i + 1, "a", escapedstate, <<c>>, quoted, out)
              [] state \in Quotes ->
                    IF c = state THEN ShlexRead(s, i + 1, "a", escapedstate, token, TRUE, out)
                    ELSE IF c \in Escape /\ state \in EscapedQuotes THEN
                        ShlexRead(s, i + 1, c, state, token, TRUE, out)
                    ELSE ShlexRead(s, i + 1, state, escapedstate, Append(token, c), TRUE, out)
              [] state \in Escape ->
                    IF escapedstate \in Quotes /\ c # state /\ c # escapedstate THEN
                        ShlexRead(s, i + 1, escapedstate, escapedstate, token \o <<state, c>>, quoted, out)
                    ELSE ShlexRead(s, i + 1, escapedstate, escapedstate, Append(token, c), quoted, out)
              [] state = "a" ->
                    IF c \in Whitespace THEN
                        ShlexRead(s, i + 1, " ", escapedstate, <<>>, FALSE, ShlexEmit(out, token, quoted))
                    ELSE IF c \in Quotes THEN ShlexRead(s, i + 1, c, escapedstate, token, quoted, out)
                    ELSE IF c \in Escape THEN ShlexRead(s, i + 1, c, "a", token, quoted, out)
                    ELSE ShlexRead(s, i + 1, "a", escapedstate, Append(token, c), quoted, out)

split(s) == ShlexRead(s, 1, " ", " ", <<>>, FALSE, <<>>)

-----------------------------------------------------------------------------
(* install, update, reinstall.  outcome is how the spawned process ends:   *)
(* exit status 0, another exit status, or the timeout expiring.            *)

RunOutcomes == {<<"0">>, <<"1">>, <<"TimeoutExpired">>}

\* subprocess.run(argv, ..., timeout=timeout), and the print that follows a failure
Subprocess(argv, timeout, outcome) ==
    <<[op |-> "subprocess.run", args |-> argv, out |-> outcome, timeout |-> timeout]>>
    \o (IF outcome = <<"0">> THEN <<>> ELSE <<Printed>>)

UvPipInstallSystem == << <<"u","v">>, <<"p","i","p">>, <<"i","n","s","t","a","l","l">>,
                         <<"-","-","s","y","s","t","e","m">> >>

\* the generator (_parse_package_spec(p) for p in packages), consumed in order
RECURSIVE parse_packages(_, _, _)
parse_packages(packages, pw, acc) ==
    IF packages = <<>> THEN acc
    ELSE
        LET r == parse_package_spec(Head(packages), pw)
        IN  IF r.ret.kind = "raise" THEN [ret |-> r.ret, trace |-> acc.trace \o r.trace]
            ELSE parse_packages(Tail(packages), pw,
                                [ret |-> Return(Append(acc.ret.value, r.ret.value)),
                                 trace |-> acc.trace \o r.trace])

\* the "--" between the options and the packages is left out
install_NoSeparator(packages, o, timeout, pw, outcome) ==
    IF packages = <<>> THEN [ret |-> Return(None), trace |-> <<>>]
    ELSE
        LET opts == split(o)
        IN  IF opts.kind = "raise" THEN [ret |-> opts, trace |-> <<>>]
            ELSE
                LET ps == parse_packages(packages, pw, [ret |-> Return(<<>>), trace |-> <<>>])
                IN  IF ps.ret.kind = "raise" THEN ps
                    ELSE [ret |-> Return(None),
                          trace |-> ps.trace
                                    \o Subprocess(UvPipInstallSystem \o opts.value \o ps.ret.value,
                                                  timeout, outcome)]

install(packages, o, timeout, pw, outcome) ==
    IF packages = <<>> THEN [ret |-> Return(None), trace |-> <<>>]
    ELSE
        LET opts == split(o)
        IN  IF opts.kind = "raise" THEN [ret |-> opts, trace |-> <<>>]
            ELSE
                LET ps == parse_packages(packages, pw, [ret |-> Return(<<>>), trace |-> <<>>])
                IN  IF ps.ret.kind = "raise" THEN ps
                    ELSE [ret |-> Return(None),
                          trace |-> ps.trace
                                    \o Subprocess(UvPipInstallSystem \o opts.value \o << <<"-","-">> >>
                                                  \o ps.ret.value, timeout, outcome)]

\* the upgrade flag is put after the caller's options
update_FlagLast(packages, o, timeout, pw, outcome) ==
    install(packages, o \o <<" ","-","U">>, timeout, pw, outcome)

update(packages, o, timeout, pw, outcome) ==
    install(packages, <<"-","U"," ">> \o o, timeout, pw, outcome)

reinstall(packages, o, timeout, pw, outcome) ==
    install(packages, <<"-","-","r","e","i","n","s","t","a","l","l"," ">> \o o, timeout, pw, outcome)

-----------------------------------------------------------------------------
(* The names bound in the module's namespace: its imports (lines 18-35),   *)
(* its constants (37-41) and its functions.                                *)

GlobalNames ==
    {"importlib", "os", "re", "shutil", "subprocess", "sys", "EmailMessage", "getpass",
     "chain", "split", "ModuleType", "urlparse", "requests", "get_ipython", "tqdm", "_colab",
     "_COLAB_ROOT", "_DRIVE_MNTPT", "_DRIVE_ROOT", "_REPOS_ROOT", "_HOST_NAMES",
     "install", "update", "reinstall", "clone_gh", "pull_gh", "reload", "edit", "download",
     "restart", "mount", "unmount", "end", "update_git",
     "_clear_repos", "_get_auth", "_get_resp_reason", "_parse_package_spec"}

\* the parameters of _get_auth (line 554)
get_auth_params == <<"auth">>

\* s.split("/")
RECURSIVE SplitSlash(_, _, _)
SplitSlash(s, i, cur) ==
    IF i > Len(s) THEN <<cur>>
    ELSE IF s[i] = "/" THEN <<cur>> \o SplitSlash(s, i + 1, <<>>)
    ELSE SplitSlash(s, i + 1, Append(cur, s[i]))

Git == <<"g","i","t">>
Src == <<"s","r","c">>

\* os.path.join(a, b) for a relative b
PathJoin(a, b) == IF a # <<>> /\ a[Len(a)] # "/" THEN a \o <<"/">> \o b ELSE a \o b

(* clone_gh.  exists: whether the target directory exists; outcome: how    *)
(* git clone would end; srcIsDir: whether the clone has a src directory.   *)
(* Gives [ret, trace, path]: path is what the call appends to sys.path and *)
(* to _colab._sys_path_extensions.                                         *)
clone_gh(repo, branch, opt, dir_name, auth, secret, timeout, exists, outcome, srcIsDir) ==
    LET parts == SplitSlash(repo, 1, <<>>)
        Out(r, tr, p) == [ret |-> r, trace |-> tr, path |-> p]
    IN  IF Len(parts) # 2 THEN Out(Raise(<<"ValueError">>), <<>>, <<>>)     \* owner, repo = ...
        ELSE
            LET owner == parts[1]
                name == parts[2]
                repo_path == PathJoin(REPOS_ROOT, Or(dir_name, name))
                src_path == PathJoin(repo_path, Src)
                https == <<"h","t","t","p","s",":","/","/">>
                tail == GithubCom \o <<"/">> \o owner \o <<"/">> \o name \o <<".","g","i","t">>
                url == IF Truthy(auth) THEN https \o auth \o <<"@">> \o tail ELSE https \o tail
                \* shlex.split of the command line built from shlex.quote'd parts
                cmd == IF Truthy(branch)
                       THEN <<Git, <<"c","l","o","n","e">>,
                              <<"-","-","s","i","n","g","l","e","-","b","r","a","n","c","h">>,
                              <<"-","b">>, branch, <<"-","-">>, url, repo_path>>
                       ELSE <<Git, <<"c","l","o","n","e">>, <<"-","-">>, url, repo_path>>
                run == Subprocess(cmd, timeout, outcome)
            IN  IF exists THEN Out(Return(None), <<Printed>>, <<>>)
                \* auth or _get_auth(secret, "q" not in opt): two arguments for one parameter
                ELSE IF ~Truthy(auth) /\ Len(<<secret, "q" \notin Chars(opt)>>) # Len(get_auth_params)
                    THEN Out(Raise(<<"TypeError">>), <<>>, <<>>)
                ELSE IF "shlex" \notin GlobalNames THEN Out(Raise(<<"NameError">>), <<>>, <<>>)
                ELSE IF outcome # <<"0">> THEN Out(Return(None), run, <<>>)
                ELSE IF "p" \in Chars(opt) THEN
                    IF srcIsDir THEN Out(Return(None), run, <<src_path>>)
                    ELSE Out(Return(None), run, <<repo_path>>)
                ELSE IF "e" \in Chars(opt) THEN
                    IF "_install_editable" \notin GlobalNames
                    THEN Out(Raise(<<"NameError">>), run, <<>>)
                    ELSE Out(Return(None), run, <<>>)
                ELSE Out(Return(None), run, <<>>)

\* uv is updated again before pulling
pull_gh_UpdatesUv(dir_name, timeout, isDir, outcome) ==
    IF ~isDir THEN [ret |-> Return(None), trace |-> <<Ev("_colab._update_uv", <<>>, <<>>), Printed>>]
    ELSE [ret |-> Return(None),
          trace |-> <<Ev("_colab._update_uv", <<>>, <<>>)>>
                    \o Subprocess(<<Git, <<"p","u","l","l">> >>, timeout, outcome)]

\* pull_gh.  isDir: whether /content/repos/<dir_name> is a directory
pull_gh(dir_name, timeout, isDir, outcome) ==
    IF ~isDir THEN [ret |-> Return(None), trace |-> <<Printed>>]
    ELSE [ret |-> Return(None),
          trace |-> Subprocess(<<Git, <<"p","u","l","l">> >>, timeout, outcome)]

-----------------------------------------------------------------------------
(* reload.  An object is [isModule, name, module, gen]: whether it is a    *)
(* ModuleType, its __name__ and __module__ (None when it has none), and    *)
(* gen = "old" for the object as the caller holds it.                      *)

Main == <<"_","_","m","a","i","n","_","_">>

\* the keys of sys.modules
SysModules == {Main, <<"m">>, <<"k">>}

Obj(isModule, name, module) == [isModule |-> isModule, name |-> name, module |-> module, gen |-> "old"]

\* the module object sys.modules[name]
ModuleNamed(name) == Obj(TRUE, name, None)

\* the attribute `name` of the re-executed module `module`
NewAttr(module, name) == [isModule |-> FALSE, name |-> name, module |-> module, gen |-> "new"]

(* importlib.reload(mod): ImportError when mod is not in sys.modules, else *)
(* the module's code runs again and either raises or finishes, and reload  *)
(* gives back the module.  reran: whether the code finishes.               *)
ImportlibReload(mod, reran) ==
    [ret |-> IF mod.name \notin SysModules THEN Raise(<<"ImportError">>)
             ELSE IF ~reran THEN Raise(<<"Exception">>)
             ELSE Return(mod),
     trace |-> <<Ev("importlib.reload", <<mod.name>>, <<>>)>>]

\* hasAttr: whether the reloaded module still defines the object's name
reload(obj, reran, hasAttr) ==
    IF obj.name = None THEN [ret |-> Return(obj), trace |-> <<Printed>>]
    ELSE IF obj.isModule THEN
        IF obj.name = Main THEN [ret |-> Return(obj), trace |-> <<Printed>>]
        ELSE ImportlibReload(obj, reran)
    ELSE IF obj.module = None THEN [ret |-> Return(obj), trace |-> <<Printed>>]
    ELSE IF obj.module = Main THEN [ret |-> Return(obj), trace |-> <<Printed>>]
    ELSE IF obj.module \notin SysModules THEN [ret |-> Raise(<<"KeyError">>), trace |-> <<>>]
    ELSE
        LET r == ImportlibReload(ModuleNamed(obj.module), reran)
        IN  IF r.ret.kind = "raise" THEN r
            ELSE IF ~hasAttr THEN [ret |-> Raise(<<"AttributeError">>), trace |-> r.trace]
            ELSE [ret |-> Return(NewAttr(obj.module, obj.name)), trace |-> r.trace]

-----------------------------------------------------------------------------
(* edit, download.                                                         *)

\* exists, isFile: what os.path says of path when the call starts
edit(path, opt, exists, isFile) ==
    LET \* os.path.dirname(path) is not empty
        hasParent == "/" \in Chars(path)
        created == IF hasParent THEN <<Ev("os.makedirs", <<>>, <<>>), Ev("open", <<path>>, <<>>)>>
                   ELSE <<Ev("open", <<path>>, <<>>)>>
        view == <<Ev("_colab.files.view", <<path>>, <<>>)>>
    IN  IF ~exists THEN
            IF "c" \in Chars(opt) THEN [ret |-> Return(None), trace |-> created \o view]
            ELSE [ret |-> Return(None), trace |-> <<Printed>>]
        ELSE IF isFile THEN [ret |-> Return(None), trace |-> view]
        ELSE [ret |-> Return(None), trace |-> <<Printed>>]

Cwd == <<"/","c","o","n","t","e","n","t">>

\* a Content-Disposition header value: with a filename parameter, or without one
Disposition(kind, filename) == <<kind, filename>>

\* EmailMessage.get_filename() of the header: its filename parameter, or None
GetFilename(h) == h[2]

\* str(x) as an f-string formats it
Str(x) == IF x = None THEN <<"N","o","n","e">> ELSE x

(* download.  ok: the response has status 200; disposition: the value of   *)
(* the Content-Disposition header, None without the header; basename:      *)
(* os.path.basename of the URL's path.                                     *)
download(url, path, ok, disposition, basename) ==
    LET get == Ev("requests.get", <<url>>, <<>>)
        Save(pth) == [ret |-> Return(pth), trace |-> <<get, Ev("open", <<pth>>, <<>>)>>]
    IN  IF ~ok THEN [ret |-> Return(None), trace |-> <<get, Printed>>]
        ELSE IF path = None THEN
            IF Truthy(disposition) THEN Save(Cwd \o <<"/">> \o Str(GetFilename(disposition)))
            ELSE IF Truthy(basename) THEN Save(Cwd \o <<"/">> \o basename)
            ELSE [ret |-> Return(None), trace |-> <<get, Printed>>]
        ELSE Save(path)

-----------------------------------------------------------------------------
(* restart, mount, unmount, end, update_git and the module body.           *)

\* the shell is asked to exit before the state is saved
restart_ExitFirst(hasShell) ==
    [ret |-> Return(None),
     trace |-> <<Ev("get_ipython", <<>>, <<>>)>>
               \o (IF ~hasShell THEN <<Printed>> ELSE <<Ev("ask_exit", <<>>, <<>>)>>)
               \o <<Ev("_colab._save_state", <<>>, <<>>)>>]

\* hasShell: whether get_ipython() gives a global interactive shell
restart(hasShell) ==
    [ret |-> Return(None),
     trace |-> <<Ev("_colab._save_state", <<>>, <<>>), Ev("get_ipython", <<>>, <<>>)>>
               \o (IF ~hasShell THEN <<Printed>> ELSE <<Ev("ask_exit", <<>>, <<>>)>>)]

DRIVE_MNTPT == <<"/","c","o","n","t","e","n","t","/","d","r","i","v","e","/">>

mount(force) ==
    [ret |-> Return(None),
     trace |-> <<Ev("_colab.drive.mount", <<DRIVE_MNTPT, IF force THEN <<"1">> ELSE <<"0">> >>, <<>>)>>]

FlushAndUnmount == Ev("_colab.drive.flush_and_unmount", <<>>, <<>>)

unmount == [ret |-> Return(None), trace |-> <<FlushAndUnmount>>]

\* shutil.rmtree(_REPOS_ROOT, ignore_errors=True)
clear_repos == <<Ev("shutil.rmtree", <<REPOS_ROOT>>, <<>>)>>

\* the runtime is unassigned before the Drive is unmounted
end_UnassignFirst ==
    [ret |-> Return(None),
     trace |-> clear_repos \o <<Ev("_colab.runtime.unassign", <<>>, <<>>)>> \o <<FlushAndUnmount>>]

end ==
    [ret |-> Return(None),
     trace |-> clear_repos \o <<FlushAndUnmount>> \o <<Ev("_colab.runtime.unassign", <<>>, <<>>)>>]

\* the shell command of update_git (line 535)
UpdateGitCmd ==
    <<"a","d","d","-","a","p","t","-","r","e","p","o","s","i","t","o","r","y"," ","-","y",
      " ","'","p","p","a",":","g","i","t","-","c","o","r","e","/","p","p","a","'"," ","&",
      "&"," ","a","p","t","-","g","e","t"," ","-","y"," ","i","n","s","t","a","l","l"," ",
      "g","i","t">>

\* gitUpdated: the value of _colab._git_updated.  The assignment after a successful
\* run (line 547) binds a name local to the function: no state of the module changes.
update_git(timeout, gitUpdated, outcome) ==
    IF gitUpdated THEN [ret |-> Return(None), trace |-> <<>>]
    ELSE [ret |-> Return(None), trace |-> Subprocess(<<UpdateGitCmd>>, timeout, outcome)]

\* the statements at the end of the module, run when it is imported
module_body ==
    [ret |-> Return(None),
     trace |-> <<Ev("_colab._load_state", <<>>, <<>>), Ev("_colab._update_uv", <<>>, <<>>)>>]

-----------------------------------------------------------------------------
(* The inputs the model draws.                                             *)

\* the strings over cs of length at most n
RECURSIVE Strings(_, _)
Strings(cs, n) ==
    IF n = 0 THEN {<<>>}
    ELSE LET S == Strings(cs, n - 1)
         IN  S \cup {Append(t, c) : t \in {u \in S : Len(u) = n - 1}, c \in cs}

\* the sequences over S of length at most n
SeqsUpTo(S, n) == UNION {[1..k -> S] : k \in 0..n}

(* Package specifiers: every string up to MaxLen over Sigma, and           *)
(* specifiers put together from well-formed and ill-formed parts.          *)
Sigma == {"$", "@", "/", ".", "a", "_", "="}

AuthParts == {<<>>, <<"@">>, <<"$","@">>, <<"$","k","@">>, <<"$","z","@">>, <<"t","@">>,
              <<"a","%","@">>, <<"t","$","@">>, <<"=","@">>, <<"$","$","@">>}
HostParts == {<<>>, <<"$","g","h","/">>, <<"$","g","l","/">>, <<"$","b","b","/">>,
              <<"a",".","a","/">>, <<"a","-",".","b",".","/">>, <<"$","g","g","/">>,
              <<"$","g","/">>, <<"a","_",".","a","/">>, <<".","a","/">>, <<"a","/">>}
OwnerParts == {<<"a">>, <<"-","_">>, <<"a",".","a">>}
RepoParts == {<<"a">>, <<".","-">>}
RefParts == {<<>>, <<"@","a">>, <<"@","a","/",".","b">>, <<"@">>, <<"@","a","@","a">>, <<"@","%">>}

SpecInputs ==
    Strings(Sigma, MaxLen)
    \cup {a \o h \o w \o <<"/">> \o r \o f :
            a \in AuthParts, h \in HostParts, w \in OwnerParts, r \in RepoParts, f \in RefParts}

AuthInputs == {<<>>, <<"$">>, <<"$","k">>, <<"$","z">>, <<"t">>, <<"t","$">>, <<"$","$">>}

\* the packages install, update and reinstall are given
PkgSpecs == {<<"a","=","=","1">>, <<"a","/","a">>, <<"$","@","a","/","a">>,
             <<"$","z","@","a","/","a">>, <<"$","k","@","$","b","b","/","a","/","a","@","a">>}

\* option strings: every string up to MaxOptLen over OptSigma, and some longer ones
OptSigma == {"-", "U", " ", "'", "\"", "\\"}
OptStrings == {<<>>, <<"-","q">>, <<"-","q"," "," ","-","U">>, <<"'","-","q"," ","a","'"," ","b">>,
               <<"-","q"," ","'">>}

Timeouts == {None, <<"6","0">>}

InstallInputs ==
    (SeqsUpTo(PkgSpecs, MaxPkgs) \X OptStrings \X {<<"6","0">>})
    \cup ({<<<<"a","=","=","1">>>>} \X Strings(OptSigma, MaxOptLen) \X {<<"6","0">>})
    \cup ({<<<<"a","/","a">>>>} \X {<<"-","q">>} \X Timeouts)

OptFlags == {<<>>, <<"p">>, <<"e">>, <<"q">>, <<"p","e">>, <<"e","q","p">>}

\* the destinations download is given: none, relative ones, absolute ones
DownloadPaths == {None, <<"f">>, <<"d","/","f">>, <<".","/","f">>, <<"/","t","/","f">>, <<"/","f">>}

\* the Content-Disposition header of the response: missing, empty, with or without a file name
Dispositions == {None, <<>>, Disposition("attachment", <<"h">>), Disposition("inline", None),
                 Disposition("attachment", <<"d","/","h">>)}

Objects ==
    {Obj(m, n, mo) : m \in BOOLEAN, n \in {None, Main, <<"m">>, <<"f">>},
                     mo \in {None, Main, <<"m">>, <<"x">>}}

-----------------------------------------------------------------------------
(* The state machine: the module is imported, then its functions are       *)
(* called one after another.                                               *)

NoCall == [fn |-> "none"]

Init ==
    /\ imported = FALSE
    /\ sysPath = <<>>
    /\ sysPathExt = <<>>
    /\ loadStateCalls = 0
    /\ updateUvCalls = 0
    /\ pc = "idle"
    /\ call = NoCall
    /\ trace = <<>>
    /\ ret = Return(None)

\* a function of the module can be called: it is imported and no call is under way
Ready == imported /\ pc = "idle"

\* the call c ends as r says, having appended `path` to sys.path and its record
Do(c, r, path) ==
    /\ pc' = "done"
    /\ call' = c
    /\ trace' = r.trace
    /\ ret' = r.ret
    /\ sysPath' = sysPath \o path
    /\ sysPathExt' = sysPathExt \o path
    /\ loadStateCalls' = loadStateCalls + Count(r.trace, "_colab._load_state")
    /\ updateUvCalls' = updateUvCalls + Count(r.trace, "_colab._update_uv")

Import ==
    /\ ~imported
    /\ pc = "idle"
    /\ imported' = TRUE
    /\ Do([fn |-> "import"], module_body, <<>>)

ParsePackageSpec ==
    /\ Ready
    /\ \E spec \in SpecInputs, pw \in PwInputs :
          Do([fn |-> "_parse_package_spec", spec |-> spec], parse_package_spec(spec, pw), <<>>)
    /\ UNCHANGED imported

GetAuth ==
    /\ Ready
    /\ \E auth \in AuthInputs, pw \in PwInputs :
          Do([fn |-> "_get_auth", auth |-> auth], get_auth(auth, pw), <<>>)
    /\ UNCHANGED imported

InstallCall(fn, in) == [fn |-> fn, packages |-> in[1], o |-> in[2], timeout |-> in[3]]

Install ==
    /\ Ready
    /\ \E in \in InstallInputs, pw \in PwInputs, outcome \in RunOutcomes :
          Do(InstallCall("install", in), install(in[1], in[2], in[3], pw, outcome), <<>>)
    /\ UNCHANGED imported

Update ==
    /\ Ready
    /\ \E in \in InstallInputs, pw \in PwInputs, outcome \in RunOutcomes :
          Do(InstallCall("update", in), update(in[1], in[2], in[3], pw, outcome), <<>>)
    /\ UNCHANGED imported

Reinstall ==
    /\ Ready
    /\ \E in \in InstallInputs, pw \in PwInputs, outcome \in RunOutcomes :
          Do(InstallCall("reinstall", in), reinstall(in[1], in[2], in[3], pw, outcome), <<>>)
    /\ UNCHANGED imported

CloneGh ==
    /\ Ready
    /\ Len(sysPath) < MaxPath
    /\ \E repo \in {<<"w","/","r">>, <<"r">>}, branch \in {None, <<"b">>}, opt \in OptFlags,
          dir_name \in {None, <<"d">>}, auth \in {None, <<"t">>}, secret \in {None, <<"k">>},
          exists \in BOOLEAN, outcome \in RunOutcomes, srcIsDir \in BOOLEAN :
          LET r == clone_gh(repo, branch, opt, dir_name, auth, secret, <<"6","0">>,
                            exists, outcome, srcIsDir)
          IN  Do([fn |-> "clone_gh", repo |-> repo, branch |-> branch, opt |-> opt,
                  dir_name |-> dir_name, auth |-> auth, secret |-> secret,
                  exists |-> exists, outcome |-> outcome, srcIsDir |-> srcIsDir], r, r.path)
    /\ UNCHANGED imported

PullGh ==
    /\ Ready
    /\ \E dir_name \in {<<"r">>, <<"d">>}, isDir \in BOOLEAN, outcome \in RunOutcomes :
          Do([fn |-> "pull_gh", dir_name |-> dir_name],
             pull_gh(dir_name, <<"6","0">>, isDir, outcome), <<>>)
    /\ UNCHANGED imported

Reload ==
    /\ Ready
    /\ \E obj \in Objects, reran \in BOOLEAN, hasAttr \in BOOLEAN :
          Do([fn |-> "reload", obj |-> obj], reload(obj, reran, hasAttr), <<>>)
    /\ UNCHANGED imported

Edit ==
    /\ Ready
    /\ \E path \in {<<"f">>, <<"d","/","f">>}, opt \in {<<>>, <<"c">>},
          exists \in BOOLEAN, isFile \in BOOLEAN :
          Do([fn |-> "edit", path |-> path, opt |-> opt], edit(path, opt, exists, isFile), <<>>)
    /\ UNCHANGED imported

Download ==
    /\ Ready
    /\ \E path \in DownloadPaths, ok \in BOOLEAN, disposition \in Dispositions,
          basename \in {<<>>, <<"u">>, <<"u",".","a">>} :
          Do([fn |-> "download", path |-> path, ok |-> ok, disposition |-> disposition,
              basename |-> basename],
             download(<<"h",":","/","/","x","/">> \o basename, path, ok, disposition, basename),
             <<>>)
    /\ UNCHANGED imported

Restart ==
    /\ Ready
    /\ \E hasShell \in BOOLEAN : Do([fn |-> "restart", hasShell |-> hasShell], restart(hasShell), <<>>)
    /\ UNCHANGED imported

Mount ==
    /\ Ready
    /\ \E force \in BOOLEAN : Do([fn |-> "mount", force |-> force], mount(force), <<>>)
    /\ UNCHANGED imported

Unmount ==
    /\ Ready
    /\ Do([fn |-> "unmount"], unmount, <<>>)
    /\ UNCHANGED imported

End ==
    /\ Ready
    /\ Do([fn |-> "end"], end, <<>>)
    /\ UNCHANGED imported

UpdateGit ==
    /\ Ready
    /\ \E gitUpdated \in BOOLEAN, outcome \in RunOutcomes :
          Do([fn |-> "update_git", gitUpdated |-> gitUpdated],
             update_git(<<"9","0">>, gitUpdated, outcome), <<>>)
    /\ UNCHANGED imported

\* the notebook goes on to its next cell: the last call is no longer looked at
NextCell ==
    /\ pc = "done"
    /\ pc' = "idle"
    /\ call' = NoCall
    /\ trace' = <<>>
    /\ ret' = Return(None)
    /\ UNCHANGED <<imported, sysPath, sysPathExt, loadStateCalls, updateUvCalls>>

Next ==
    \/ Import
    \/ ParsePackageSpec
    \/ GetAuth
    \/ Install
    \/ Update
    \/ Reinstall
    \/ CloneGh
    \/ PullGh
    \/ Reload
    \/ Edit
    \/ Download
    \/ Restart
    \/ Mount
    \/ Unmount
    \/ End
    \/ UpdateGit
    \/ NextCell

Spec == Init /\ [][Next]_vars

-----------------------------------------------------------------------------
(* The shorthand [auth@][host/]owner/repo[@ref], stated part by part.      *)

All(x, cs) == \A i \in DOMAIN x : x[i] \in cs

IsAuthText(x) ==
    IF StartsWith(x, "$") THEN All(Tail(x), {"-","%","+",".",":"} \cup Word)
    ELSE All(x, {"-","%","+",".",":"} \cup Word)

IsHostTag(x) == x \in {<<"g","h">>, <<"g","l">>, <<"b","b">>}

\* a domain name: a dot-free label, a dot, and the rest
IsHostName(x) ==
    \E k \in 2..(Len(x) - 1) :
        /\ x[k] = "."
        /\ All(SubSeq(x, 1, k - 1), {"-"} \cup Alnum)
        /\ All(SubSeq(x, k + 1, Len(x)), {"-","."} \cup Alnum)

\* owner/repo or owner/repo@ref
IsRepoRef(x) ==
    \E k \in 2..(Len(x) - 1) :
        /\ x[k] = "/"
        /\ All(SubSeq(x, 1, k - 1), {"-"} \cup Word)
        /\ LET rest == SubSeq(x, k + 1, Len(x))
           IN  \/ All(rest, {"-","."} \cup Word)
               \/ \E m \in 2..(Len(rest) - 1) :
                     /\ rest[m] = "@"
                     /\ All(SubSeq(rest, 1, m - 1), {"-","."} \cup Word)
                     /\ All(SubSeq(rest, m + 1, Len(rest)), {"-",".","/"} \cup Word)

(* The ways to read s as a shorthand: [auth, tag, name, repo], with None   *)
(* for a part that is not there; tag is a host given as $tag, name a host  *)
(* given as a domain name, repo is owner/repo[@ref].                       *)
Decomps(s) ==
    LET n == Len(s)
        AuthCuts == {0} \cup {i \in 1..n : s[i] = "@" /\ IsAuthText(SubSeq(s, 1, i - 1))}
        IsHost(h) == (StartsWith(h, "$") /\ IsHostTag(Tail(h))) \/ IsHostName(h)
        HostCuts(i) == {i} \cup {j \in (i + 1)..n : s[j] = "/" /\ IsHost(SubSeq(s, i + 1, j - 1))}
        D(i, j) == [auth |-> IF i = 0 THEN None ELSE SubSeq(s, 1, i - 1),
                    tag |-> IF j > i /\ s[i + 1] = "$" THEN SubSeq(s, i + 2, j - 1) ELSE None,
                    name |-> IF j > i /\ s[i + 1] # "$" THEN SubSeq(s, i + 1, j - 1) ELSE None,
                    repo |-> SubSeq(s, j + 1, n)]
    IN  UNION {{D(i, j) : j \in {h \in HostCuts(i) : IsRepoRef(SubSeq(s, h + 1, n))}} : i \in AuthCuts}

\* the host domain a reading stands for
HostOf(d) ==
    IF d.tag = <<"g","h">> THEN GithubCom
    ELSE IF d.tag = <<"g","l">> THEN GitlabCom
    ELSE IF d.tag = <<"b","b">> THEN BitbucketOrg
    ELSE IF d.name # None THEN d.name
    ELSE GithubCom

Parsed == pc = "done" /\ call.fn = "_parse_package_spec"

\* C1: a shorthand specifier without an auth part is parsed to
\* "git+https://" + H + "/" + owner/repo[@ref], H being github.com when no host is
\* given, the domain of the tag $gh, $gl or $bb, and the given domain name otherwise.
C1_ShorthandWithoutAuth ==
    Parsed =>
        \A d \in Decomps(call.spec) :
            d.auth = None => ret = Return(GitHttps \o HostOf(d) \o <<"/">> \o d.repo)

C1_Witness ==
    /\ Parsed
    /\ \E d \in Decomps(call.spec) :
          d.auth = None /\ d.tag = <<"b","b">> /\ "@" \in Chars(d.repo)
    /\ ret.kind = "return"

\* C2: a shorthand specifier with a non-empty auth part is parsed to
\* "git+https://" + A + "@" + host + "/" + repo: for auth "$", A is what one getpass
\* prompt gave; for "$name", A is the Colab Secret `name`, looked up exactly once with
\* that name; otherwise A is the auth text, and neither prompt nor secret store is used.
\* The call returns unless the secret lookup fails.
C2_ShorthandWithAuth ==
    Parsed =>
        \A d \in Decomps(call.spec) :
            Truthy(d.auth) =>
                LET Url(a) == Return(GitHttps \o a \o <<"@">> \o HostOf(d) \o <<"/">> \o d.repo)
                IN  IF d.auth = <<"$">> THEN
                        /\ Len(trace) = 1
                        /\ trace[1].op = "getpass"
                        /\ ret = Url(trace[1].out)
                    ELSE IF StartsWith(d.auth, "$") THEN
                        /\ Len(trace) = 1
                        /\ trace[1].op = "userdata.get"
                        /\ trace[1].args = <<Tail(d.auth)>>
                        /\ IF Tail(d.auth) \in DOMAIN Secrets
                           THEN ret = Url(Secrets[Tail(d.auth)])
                           ELSE ret.kind = "raise"
                    ELSE
                        /\ trace = <<>>
                        /\ ret = Url(d.auth)

C2_Witness ==
    /\ Parsed
    /\ \E d \in Decomps(call.spec) : d.auth = <<"$","k">> /\ d.tag = <<"g","l">>
    /\ ret.kind = "return"
    /\ Count(trace, "userdata.get") = 1

\* C3: a specifier that is not a shorthand is returned unchanged, and parsing it
\* spawns no getpass prompt and looks up no Colab Secret.
C3_NotShorthandUnchanged ==
    (Parsed /\ Decomps(call.spec) = {}) => (ret = Return(call.spec) /\ trace = <<>>)

C3_Witness ==
    /\ Parsed
    /\ call.spec = <<"$","k","@","$","g","g","/","a","/","a">>
    /\ Decomps(call.spec) = {}
    /\ ret = Return(call.spec)

\* no specifier can be read as a shorthand in two ways
ShorthandUnambiguous == Parsed => Cardinality(Decomps(call.spec)) <= 1

-----------------------------------------------------------------------------
(* install, update, reinstall.                                             *)

\* the calls of subprocess.run in a trace
Runs(tr) == SelectSeq(tr, LAMBDA e : e.op = "subprocess.run")

\* what _parse_package_spec makes of each package, the user typing pw when prompted
ParsedEach(packages, pw) == [k \in DOMAIN packages |-> parse_package_spec(packages[k], pw).ret]

AllReturn(rs) == \A k \in DOMAIN rs : rs[k].kind = "return"

Values(rs) == [k \in DOMAIN rs |-> rs[k].value]

\* every getpass prompt of the trace was answered with pw
Typed(tr, pw) == \A k \in DOMAIN tr : tr[k].op = "getpass" => tr[k].out = pw

Installed(fn) == pc = "done" /\ call.fn = fn /\ Len(call.packages) >= 1

\* C4 as stated: install with at least one package starts exactly one subprocess,
\* whose arguments are uv pip install --system, the shell-split tokens of o, "--", and
\* the parsed packages in the order given.
C4_AlwaysOneSubprocess ==
    Installed("install") =>
        \E pw \in PwInputs :
            LET opts == split(call.o)
                parsed == ParsedEach(call.packages, pw)
            IN  /\ Typed(trace, pw)
                /\ Len(Runs(trace)) = 1
                /\ (opts.kind = "return" /\ AllReturn(parsed)) =>
                      Runs(trace)[1].args
                        = UvPipInstallSystem \o opts.value \o << <<"-","-">> >> \o Values(parsed)

\* C4, amended: when o can be shell-split and every package is parsed without a
\* failing secret lookup, install starts exactly one subprocess with those arguments;
\* otherwise it raises and starts none.
C4_OneSubprocessWhenParsed ==
    Installed("install") =>
        \E pw \in PwInputs :
            LET opts == split(call.o)
                parsed == ParsedEach(call.packages, pw)
            IN  /\ Typed(trace, pw)
                /\ IF opts.kind = "return" /\ AllReturn(parsed) THEN
                        /\ Len(Runs(trace)) = 1
                        /\ Runs(trace)[1].args
                             = UvPipInstallSystem \o opts.value \o << <<"-","-">> >> \o Values(parsed)
                        /\ ret = Return(None)
                   ELSE
                        /\ Len(Runs(trace)) = 0
                        /\ ret.kind = "raise"

C4_Witness ==
    /\ Installed("install")
    /\ call.packages = << <<"$","@","a","/","a">>, <<"a","=","=","1">> >>
    /\ call.o = <<"'","-","q"," ","a","'"," ","b">>
    /\ Len(Runs(trace)) = 1
    /\ Len(Runs(trace)[1].args) = 9

\* the flag update and reinstall put before the caller's options
FlagOf(fn) == IF fn = "update" THEN <<"-","U">> ELSE <<"-","-","r","e","i","n","s","t","a","l","l">>

\* C5: update and reinstall run the subprocess install would run for the same
\* packages and timeout, with -U (--reinstall) as the first option and the caller's
\* options after it; they fail where install fails and do nothing without packages.
C5_UpdateReinstallAsInstall ==
    \A fn \in {"update", "reinstall"} :
        /\ Installed(fn) =>
              \E pw \in PwInputs :
                  LET opts == split(call.o)
                      parsed == ParsedEach(call.packages, pw)
                  IN  /\ Typed(trace, pw)
                      /\ IF opts.kind = "return" /\ AllReturn(parsed) THEN
                              /\ Len(Runs(trace)) = 1
                              /\ Runs(trace)[1].args
                                   = UvPipInstallSystem \o <<FlagOf(fn)>> \o opts.value
                                     \o << <<"-","-">> >> \o Values(parsed)
                              /\ Runs(trace)[1].timeout = call.timeout
                              /\ ret = Return(None)
                         ELSE
                              /\ Len(Runs(trace)) = 0
                              /\ ret.kind = "raise"
        /\ (pc = "done" /\ call.fn = fn /\ call.packages = <<>>) =>
              (trace = <<>> /\ ret = Return(None))

C5_Witness ==
    /\ Installed("update")
    /\ call.o = <<"-","q"," "," ","-","U">>
    /\ Len(call.packages) = 2
    /\ Len(Runs(trace)) = 1
    /\ Len(Runs(trace)[1].args) = 10

-----------------------------------------------------------------------------
(* restart, end, import.                                                   *)

Ops(tr) == [k \in DOMAIN tr |-> tr[k].op]

\* the places of op in a trace
Places(tr, op) == {k \in DOMAIN tr : tr[k].op = op}

\* C6: restart saves the session state exactly once, before it asks the shell to
\* exit, which it does exactly once; without a global interactive shell the state is
\* still saved, no exit is asked for, a hint is printed and restart returns.
C6_RestartSavesFirst ==
    (pc = "done" /\ call.fn = "restart") =>
        /\ Count(trace, "_colab._save_state") = 1
        /\ ret = Return(None)
        /\ IF call.hasShell THEN
                /\ Count(trace, "ask_exit") = 1
                /\ \A i \in Places(trace, "_colab._save_state"), j \in Places(trace, "ask_exit") : i < j
           ELSE
                /\ Count(trace, "ask_exit") = 0
                /\ Count(trace, "print") = 1

C6_Witness ==
    /\ pc = "done"
    /\ call.fn = "restart"
    /\ call.hasShell
    /\ Count(trace, "ask_exit") = 1

\* C7: end removes /content/repos/, flushes and unmounts the Drive and unassigns the
\* runtime, each exactly once and in this order.
C7_EndInOrder ==
    (pc = "done" /\ call.fn = "end") =>
        /\ Ops(trace) = <<"shutil.rmtree", "_colab.drive.flush_and_unmount", "_colab.runtime.unassign">>
        /\ trace[1].args = <<REPOS_ROOT>>

C7_Witness ==
    /\ pc = "done"
    /\ call.fn = "end"
    /\ Count(trace, "_colab.runtime.unassign") = 1

-----------------------------------------------------------------------------
(* clone_gh, reload.                                                       *)

\* C9: a clone_gh call with "p" among its options, a target directory that does not
\* exist yet and a git clone that exits with status 0 returns having appended exactly
\* one directory, <clone>/src if it exists and else the clone, to sys.path and to
\* _colab._sys_path_extensions, without an editable install; so the two always hold
\* the same entries.
C9_ClonePathAppended ==
    [][ /\ (/\ pc = "idle"
            /\ pc' = "done"
            /\ call'.fn = "clone_gh"
            /\ call'.repo = <<"w","/","r">>
            /\ "p" \in Chars(call'.opt)
            /\ ~call'.exists
            /\ call'.outcome = <<"0">>) =>
              LET clone == REPOS_ROOT \o Or(call'.dir_name, <<"r">>)
                  dir == IF call'.srcIsDir THEN clone \o <<"/","s","r","c">> ELSE clone
              IN  /\ ret'.kind = "return"
                  /\ sysPath' = Append(sysPath, dir)
                  /\ sysPathExt' = Append(sysPathExt, dir)
                  /\ Count(trace', "subprocess.run") = 1
        /\ sysPath' = sysPathExt' ]_vars

\* the cases in which reload gives its argument back
NotReloadable(obj) ==
    \/ obj.name = None
    \/ obj.isModule /\ obj.name = Main
    \/ ~obj.isModule /\ obj.module = None
    \/ ~obj.isModule /\ obj.module = Main

\* C10: reload gives back its argument and reloads nothing when the object has no
\* __name__, is the module __main__, or is no module and has no __module__ or the
\* __module__ "__main__"; in every other case it calls importlib.reload exactly once,
\* on the object if it is a module and else on sys.modules[obj.__module__], and what
\* it returns is the reloaded module or its attribute named obj.__name__.
C10_ReloadOnceOtherwise ==
    (pc = "done" /\ call.fn = "reload") =>
        IF NotReloadable(call.obj) THEN
            /\ ret = Return(call.obj)
            /\ Count(trace, "importlib.reload") = 0
        ELSE
            /\ Count(trace, "importlib.reload") = 1
            /\ \A k \in Places(trace, "importlib.reload") :
                  trace[k].args = <<IF call.obj.isModule THEN call.obj.name ELSE call.obj.module>>
            /\ ret.kind = "return" =>
                  ret.value = (IF call.obj.isModule THEN call.obj
                               ELSE NewAttr(call.obj.module, call.obj.name))

-----------------------------------------------------------------------------
(* download.                                                               *)

\* os.path.isabs
IsAbs(path) == StartsWith(path, "/")

\* the download succeeds: status 200 and a destination given or inferred
Downloaded ==
    /\ pc = "done"
    /\ call.fn = "download"
    /\ call.ok
    /\ (call.path # None \/ Truthy(call.disposition) \/ Truthy(call.basename))

\* C11: a download that succeeds returns the absolute path of the downloaded file,
\* whatever path is given: an absolute one, a relative one or None.
C11_DownloadReturnsAbsolute ==
    Downloaded =>
        /\ ret.kind = "return"
        /\ ret.value # None
        /\ IsAbs(ret.value)
        /\ Count(trace, "open") = 1

====
